---- MODULE Spec2Model ----
(***************************************************************************)
(* Model of computer_use_demo/tools/computer.py: the ComputerTool action   *)
(* dispatcher (__call__), its helpers shell and screenshot, the coordinate *)
(* scaler scale_coordinates and the xdotool-to-AppleScript key tables.     *)
(*                                                                         *)
(* Python strings are sequences of one-character strings, so that          *)
(* str.split, dictionary lookups and str.replace are computed as the code  *)
(* computes them.  Python values whose type the code inspects are tagged   *)
(* records (None, Str, Int, Float, List, Tuple).                           *)
(***************************************************************************)
EXTENDS Integers, Sequences, FiniteSets, TLC

VARIABLES
    width, height,  \* self.width, self.height: the real display
    pc,             \* per caller: "idle", "running" or "done"
    req,            \* per caller: the keyword arguments of its __call__
    todo,           \* per caller: the awaited steps still ahead of it
    sh,             \* per caller: stdout, stderr of the caller's shell()
    cap,            \* per caller: "result" of screenshot()
    image,          \* per caller: the base64_image obtained last
    log,            \* the awaited commands and settle delays, in order
    failed,         \* per caller: did a command of this call report an error
    outcome,        \* per caller: what __call__ returned or raised
    probe           \* a point under conversion by scale_coordinates

vars == <<width, height, pc, req, todo, sh, cap, image, log, failed, outcome,
          probe>>

----------------------------------------------------------------------------
(* Program constants                                                       *)

MAC_SCALED_RES_HEIGHT == 662
MAC_SCALED_RES_WIDTH == 1024
XGA_RES_HEIGHT == 768
XGA_RES_WIDTH == 1024

Action ==
    {"key", "type", "mouse_move", "left_click", "left_click_drag",
     "right_click", "middle_click", "double_click", "screenshot",
     "cursor_position"}

XDOTOOL_TO_APPLESCRIPT_KEYCODES ==
    <<"L","e","f","t">> :> 123 @@
    <<"R","i","g","h","t">> :> 124 @@
    <<"D","o","w","n">> :> 125 @@
    <<"U","p">> :> 126 @@
    <<"R","e","t","u","r","n">> :> 36 @@
    <<"E","n","t","e","r">> :> 36 @@
    <<"E","s","c">> :> 53 @@
    <<"E","s","c","a","p","e">> :> 53 @@
    <<"T","a","b">> :> 48 @@
    <<"B","a","c","k","S","p","a","c","e">> :> 51 @@
    <<"D","e","l","e","t","e">> :> 117 @@
    <<"H","o","m","e">> :> 115 @@
    <<"E","n","d">> :> 119 @@
    <<"P","a","g","e","_","U","p">> :> 116 @@
    <<"P","r","i","o","r">> :> 116 @@
    <<"P","a","g","e","_","D","o","w","n">> :> 121 @@
    <<"N","e","x","t">> :> 121 @@
    <<"F","1">> :> 122 @@
    <<"F","2">> :> 120 @@
    <<"F","3">> :> 99 @@
    <<"F","4">> :> 118 @@
    <<"F","5">> :> 96 @@
    <<"F","6">> :> 97 @@
    <<"F","7">> :> 98 @@
    <<"F","8">> :> 100 @@
    <<"F","9">> :> 101 @@
    <<"F","1","0">> :> 109 @@
    <<"F","1","1">> :> 103 @@
    <<"F","1","2">> :> 111

XDOTOOL_TO_APPLESCRIPT_MODIFIERS ==
    <<"c","t","r","l">> :> <<"c","o","n","t","r","o","l"," ","d","o","w","n">> @@
    <<"c","o","n","t","r","o","l">> :> <<"c","o","n","t","r","o","l"," ","d","o","w","n">> @@
    <<"a","l","t">> :> <<"o","p","t","i","o","n"," ","d","o","w","n">> @@
    <<"s","h","i","f","t">> :> <<"s","h","i","f","t"," ","d","o","w","n">> @@
    <<"s","u","p","e","r">> :> <<"c","o","m","m","a","n","d"," ","d","o","w","n">> @@
    <<"c","m","d">> :> <<"c","o","m","m","a","n","d"," ","d","o","w","n">> @@
    <<"m","e","t","a">> :> <<"c","o","m","m","a","n","d"," ","d","o","w","n">>

(* the local table of press_key_applescript and press_character_applescript *)
applescript_mods_map ==
    <<"c","m","d">> :> <<"c","o","m","m","a","n","d"," ","d","o","w","n">> @@
    <<"c","t","r","l">> :> <<"c","o","n","t","r","o","l"," ","d","o","w","n">> @@
    <<"a","l","t">> :> <<"o","p","t","i","o","n"," ","d","o","w","n">> @@
    <<"s","h","i","f","t">> :> <<"s","h","i","f","t"," ","d","o","w","n">>

----------------------------------------------------------------------------
(* Python values                                                           *)

None == [t |-> "None"]
PyStr(s) == [t |-> "str", s |-> s]
PyInt(n) == [t |-> "int", i |-> n]
PyFloat(halves) == [t |-> "float", halves |-> halves]
PyList(items) == [t |-> "list", items |-> items]
PyTuple(items) == [t |-> "tuple", items |-> items]

----------------------------------------------------------------------------
(* Pure helpers                                                            *)

(* Python round() of the quotient n/d, d > 0: nearest integer, ties to even *)
round(n, d) ==
    LET q == n \div d
        r == n % d
    IN  IF 2 * r < d THEN q
        ELSE IF 2 * r > d THEN q + 1
        ELSE IF q % 2 = 0 THEN q ELSE q + 1

(* scale_coordinates scaling the screen's y back with the XGA height *)
scale_coordinates_xga_back(w, h, source, x, y) ==
    IF source = "api"
    THEN IF x > MAC_SCALED_RES_WIDTH \/ y > MAC_SCALED_RES_HEIGHT
         THEN [raise |-> "out of bounds"]
         ELSE [x |-> round(x * w, MAC_SCALED_RES_WIDTH),
               y |-> round(y * h, MAC_SCALED_RES_HEIGHT)]
    ELSE [x |-> round(x * MAC_SCALED_RES_WIDTH, w),
          y |-> round(y * XGA_RES_HEIGHT, h)]

(* scale_coordinates scaling x up by the capture height *)
scale_coordinates_swapped(w, h, source, x, y) ==
    IF source = "api"
    THEN IF x > MAC_SCALED_RES_WIDTH \/ y > MAC_SCALED_RES_HEIGHT
         THEN [raise |-> "out of bounds"]
         ELSE [x |-> round(x * w, MAC_SCALED_RES_HEIGHT),
               y |-> round(y * h, MAC_SCALED_RES_HEIGHT)]
    ELSE [x |-> round(x * MAC_SCALED_RES_WIDTH, w),
          y |-> round(y * MAC_SCALED_RES_HEIGHT, h)]

(* scale_coordinates testing y against the XGA height *)
scale_coordinates_xga_bound(w, h, source, x, y) ==
    IF source = "api"
    THEN IF x > XGA_RES_WIDTH \/ y > XGA_RES_HEIGHT
         THEN [raise |-> "out of bounds"]
         ELSE [x |-> round(x * w, MAC_SCALED_RES_WIDTH),
               y |-> round(y * h, MAC_SCALED_RES_HEIGHT)]
    ELSE [x |-> round(x * MAC_SCALED_RES_WIDTH, w),
          y |-> round(y * MAC_SCALED_RES_HEIGHT, h)]

(* ComputerTool.scale_coordinates on a display of w x h pixels.  The result *)
(* is either the scaled point or the raised ToolError.  The code divides   *)
(* and multiplies by the float MAC_SCALED_RES_WIDTH / self.width; on every *)
(* display of Resolutions the float result equals the exact quotient       *)
(* rounded half to even, which is what round(n, d) computes.               *)
scale_coordinates(w, h, source, x, y) ==
    IF source = "api"
    THEN IF x > MAC_SCALED_RES_WIDTH \/ y > MAC_SCALED_RES_HEIGHT
         THEN [raise |-> "out of bounds"]
         ELSE [x |-> round(x * w, MAC_SCALED_RES_WIDTH),
               y |-> round(y * h, MAC_SCALED_RES_HEIGHT)]
    ELSE [x |-> round(x * MAC_SCALED_RES_WIDTH, w),
          y |-> round(y * MAC_SCALED_RES_HEIGHT, h)]

(* ComputerTool.options: the display size advertised to the caller *)
options(w, h) ==
    LET xy == scale_coordinates(w, h, "computer", w, h)
    IN  [display_width_px |-> xy.x, display_height_px |-> xy.y]

(* str.split('+'): the substrings between the separators *)
RECURSIVE split(_)
split(s) ==
    IF \A i \in 1..Len(s) : s[i] # "+"
    THEN <<s>>
    ELSE LET i == CHOOSE j \in 1..Len(s) :
                      s[j] = "+" /\ \A k \in 1..(j - 1) : s[k] # "+"
         IN  <<SubSeq(s, 1, i - 1)>> \o split(SubSeq(s, i + 1, Len(s)))

(* str.replace('"', '\\"') *)
RECURSIVE escape_quotes(_)
escape_quotes(s) ==
    IF s = <<>> THEN <<>>
    ELSE (IF Head(s) = "\"" THEN <<"\\", "\"">> ELSE <<Head(s)>>)
         \o escape_quotes(Tail(s))

(* [table[m] for m in ms if m in table] *)
RECURSIVE lookup_known(_, _)
lookup_known(table, ms) ==
    IF ms = <<>> THEN <<>>
    ELSE (IF Head(ms) \in DOMAIN table THEN <<table[Head(ms)]>> ELSE <<>>)
         \o lookup_known(table, Tail(ms))

(* The AppleScript snippets.  "using" is the list joined into the clause   *)
(* ' using {...}'; the clause is absent when the list is empty.            *)
press_key_applescript(keycode, modifiers) ==
    [verb |-> "key code", code |-> keycode,
     using |-> lookup_known(applescript_mods_map, modifiers)]

press_character_applescript(char, modifiers) ==
    [verb |-> "keystroke", chars |-> escape_quotes(char),
     using |-> lookup_known(applescript_mods_map, modifiers)]

(* the "key" branch of __call__: from the text to the AppleScript command *)
key_parts(text) == split(text)
key_of(text) == key_parts(text)[Len(key_parts(text))]
raw_mods(text) == SubSeq(key_parts(text), 1, Len(key_parts(text)) - 1)
applescript_mods(text) ==
    lookup_known(XDOTOOL_TO_APPLESCRIPT_MODIFIERS, raw_mods(text))

applescript_cmd(text) ==
    IF key_of(text) \in DOMAIN XDOTOOL_TO_APPLESCRIPT_KEYCODES
    THEN press_key_applescript(XDOTOOL_TO_APPLESCRIPT_KEYCODES[key_of(text)],
                               applescript_mods(text))
    ELSE press_character_applescript(key_of(text), applescript_mods(text))

----------------------------------------------------------------------------
(* int(): optional surrounding blanks, optional sign, decimal digits       *)

Digits == <<"0", "1", "2", "3", "4", "5", "6", "7", "8", "9">>
Blank == {" ", "\n", "\t"}

RECURSIVE strip(_)
strip(s) ==
    IF s = <<>> THEN s
    ELSE IF Head(s) \in Blank THEN strip(Tail(s))
    ELSE IF s[Len(s)] \in Blank THEN strip(SubSeq(s, 1, Len(s) - 1))
    ELSE s

digit_value(c) == (CHOOSE i \in 1..10 : Digits[i] = c) - 1

RECURSIVE digits_value(_)
digits_value(s) ==
    IF s = <<>> THEN 0
    ELSE 10 * digits_value(SubSeq(s, 1, Len(s) - 1)) + digit_value(s[Len(s)])

is_digits(s) == s # <<>> /\ \A i \in 1..Len(s) : \E d \in 1..10 : Digits[d] = s[i]

int_ok(s) ==
    LET u == strip(s)
    IN  IF u # <<>> /\ Head(u) \in {"-", "+"} THEN is_digits(Tail(u))
        ELSE is_digits(u)

int(s) ==
    LET u == strip(s)
    IN  IF Head(u) = "-" THEN 0 - digits_value(Tail(u))
        ELSE IF Head(u) = "+" THEN digits_value(Tail(u))
        ELSE digits_value(u)

(* str(n) as used by the f-strings *)
RECURSIVE nat_str(_)
nat_str(n) ==
    IF n < 10 THEN <<Digits[n + 1]>>
    ELSE nat_str(n \div 10) \o <<Digits[(n % 10) + 1]>>

str(n) == IF n < 0 THEN <<"-">> \o nat_str(0 - n) ELSE nat_str(n)

(* str.split(',') *)
RECURSIVE split_comma(_)
split_comma(s) ==
    IF \A i \in 1..Len(s) : s[i] # ","
    THEN <<s>>
    ELSE LET i == CHOOSE j \in 1..Len(s) :
                      s[j] = "," /\ \A k \in 1..(j - 1) : s[k] # ","
         IN  <<SubSeq(s, 1, i - 1)>> \o split_comma(SubSeq(s, i + 1, Len(s)))

----------------------------------------------------------------------------
(* Shell commands, as the records of their parts                           *)

cliclick(arg) == [prog |-> "cliclick", arg |-> arg]
cliclick_m(x, y) == [prog |-> "cliclick", arg |-> "m", x |-> x, y |-> y]
cliclick_t(text) == [prog |-> "cliclick", arg |-> "t", text |-> text]
osascript(script) == [prog |-> "osascript", arg |-> "-e", script |-> script]
screencapture == [prog |-> "screencapture", arg |-> "-x"]
magick == [prog |-> "magick", arg |-> "-resize"]

(* asyncio.sleep(self._screenshot_delay), as it stands in the log *)
sleep == [prog |-> "sleep", arg |-> "_screenshot_delay"]

click_arg == [left_click |-> "c", right_click |-> "rc", double_click |-> "dc"]

(* The awaited steps of screenshot() and of shell(): each run() of a       *)
(* command, the settle delay, and the path.exists() test that ends         *)
(* screenshot().                                                           *)
run(command, into) == [op |-> "run", command |-> command, into |-> into]

screenshot ==
    <<run(screencapture, "cap"), run(magick, "drop"), [op |-> "exists"]>>

(* shell capturing the screenshot without the settle delay *)
shell_no_delay(command, take_screenshot) ==
    <<run(command, "sh")>>
    \o (IF take_screenshot THEN screenshot ELSE <<>>)

shell(command, take_screenshot) ==
    <<run(command, "sh")>>
    \o (IF take_screenshot THEN <<[op |-> "sleep"]>> \o screenshot ELSE <<>>)

return(what) == <<[op |-> "return", what |-> what]>>

ToolResult(output, error, base64_image) ==
    [kind |-> "return", output |-> output, error |-> error,
     base64_image |-> base64_image]

ToolError(message) == [kind |-> "raise", exc |-> "ToolError", msg |-> message]

Steps(ops) == [kind |-> "await", ops |-> ops]

(* all(isinstance(i, int) and i >= 0 for i in coordinate) *)
non_negative_ints(items) ==
    \A k \in 1..Len(items) : items[k].t = "int" /\ items[k].i >= 0

(* The argument checks of the three groups of actions: the message of the  *)
(* ToolError raised, or "" when the arguments pass.                        *)
validate_pointer(text, coordinate) ==
    IF coordinate = None THEN "coordinate is required"
    ELSE IF text # None THEN "text is not accepted"
    ELSE IF coordinate.t # "list" \/ Len(coordinate.items) # 2
        THEN "must be a tuple of length 2"
    ELSE IF ~non_negative_ints(coordinate.items)
        THEN "must be a tuple of non-negative ints"
    ELSE ""

validate_keyboard(text, coordinate) ==
    IF text = None THEN "text is required"
    ELSE IF coordinate # None THEN "coordinate is not accepted"
    ELSE IF text.t # "str" THEN "must be a string"
    ELSE ""

(* validate_click testing the truth of text instead of "is not None" *)
validate_click_truthy(text, coordinate) ==
    IF text # None /\ text # PyStr(<<>>) THEN "text is not accepted"
    ELSE IF coordinate # None THEN "coordinate is not accepted"
    ELSE ""

validate_click(text, coordinate) ==
    IF text # None THEN "text is not accepted"
    ELSE IF coordinate # None THEN "coordinate is not accepted"
    ELSE ""

(* pointer_steps with the drag releasing the button before it moves *)
pointer_steps_release_first(action, x, y) ==
    IF action = "mouse_move"
    THEN Steps(shell(cliclick_m(x, y), TRUE) \o return("shell"))
    ELSE Steps(shell(cliclick("dd"), TRUE)
               \o shell(cliclick("du"), TRUE)
               \o shell(cliclick_m(x, y), TRUE)
               \o return("shell"))

(* What each branch of __call__ does once the arguments passed *)
pointer_steps(action, x, y) ==
    IF action = "mouse_move"
    THEN Steps(shell(cliclick_m(x, y), TRUE) \o return("shell"))
    ELSE Steps(shell(cliclick("dd"), TRUE)
               \o shell(cliclick_m(x, y), TRUE)
               \o shell(cliclick("du"), TRUE)
               \o return("shell"))

(* key_steps passing take_screenshot=False *)
key_steps_no_screenshot(text) ==
    Steps(shell(osascript(applescript_cmd(text)), FALSE) \o return("shell"))

key_steps(text) ==
    Steps(shell(osascript(applescript_cmd(text)), TRUE) \o return("shell"))

(* type_steps returning what screenshot() returned *)
type_steps_capture_result(text) ==
    Steps(shell(cliclick_t(text), FALSE) \o screenshot \o return("screenshot"))

type_steps(text) ==
    Steps(shell(cliclick_t(text), FALSE) \o screenshot \o return("shell"))

(* click_steps without the middle_click refusal *)
click_steps_middle(action) ==
    IF action = "screenshot" THEN Steps(screenshot \o return("screenshot"))
    ELSE IF action = "cursor_position"
        THEN Steps(shell(cliclick("p"), FALSE) \o return("cursor"))
    ELSE IF action = "middle_click"
        THEN Steps(shell(cliclick("mc"), TRUE) \o return("shell"))
    ELSE Steps(shell(cliclick(click_arg[action]), TRUE) \o return("shell"))

click_steps(action) ==
    IF action = "screenshot" THEN Steps(screenshot \o return("screenshot"))
    ELSE IF action = "cursor_position"
        THEN Steps(shell(cliclick("p"), FALSE) \o return("cursor"))
    ELSE IF action = "middle_click"
        THEN ToolResult(None,
                        PyStr(<<"Middle click is not supported currently.">>),
                        None)
    ELSE Steps(shell(cliclick(click_arg[action]), TRUE) \o return("shell"))

(* ComputerTool.__call__ up to its first await: the fault it raises, the   *)
(* result it returns at once, or the awaited steps it goes on to take.     *)
call(w, h, action, text, coordinate) ==
    IF action \in {"mouse_move", "left_click_drag"} THEN
        IF validate_pointer(text, coordinate) # ""
        THEN ToolError(validate_pointer(text, coordinate))
        ELSE LET xy == scale_coordinates(w, h, "api", coordinate.items[1].i,
                                         coordinate.items[2].i)
             IN  IF "raise" \in DOMAIN xy THEN ToolError(xy.raise)
                 ELSE pointer_steps(action, xy.x, xy.y)
    ELSE IF action \in {"key", "type"} THEN
        IF validate_keyboard(text, coordinate) # ""
        THEN ToolError(validate_keyboard(text, coordinate))
        ELSE IF action = "key" THEN key_steps(text.s)
        ELSE type_steps(text.s)
    ELSE IF action \in {"left_click", "right_click", "double_click",
                        "middle_click", "screenshot", "cursor_position"} THEN
        IF validate_click(text, coordinate) # ""
        THEN ToolError(validate_click(text, coordinate))
        ELSE click_steps(action)
    ELSE ToolError("Invalid action")

(* cursor_result formatting the screen point as it was reported *)
cursor_result_unscaled(w, h, stdout, stderr) ==
    LET output == strip(stdout)
        fields == split_comma(output)
    IN  IF Len(fields) # 2 \/ ~int_ok(fields[1]) \/ ~int_ok(fields[2])
        THEN [kind |-> "raise", exc |-> "ValueError", msg |-> "int or unpack"]
        ELSE ToolResult(PyStr(<<"X", "=">> \o str(int(fields[1]))
                              \o <<",", "Y", "=">> \o str(int(fields[2]))),
                        PyStr(stderr), None)

(* cursor_position after its shell(): parse "x,y", scale, format *)
cursor_result(w, h, stdout, stderr) ==
    LET output == strip(stdout)
        fields == split_comma(output)
    IN  IF Len(fields) # 2 \/ ~int_ok(fields[1]) \/ ~int_ok(fields[2])
        THEN [kind |-> "raise", exc |-> "ValueError", msg |-> "int or unpack"]
        ELSE LET xy == scale_coordinates(w, h, "computer", int(fields[1]),
                                         int(fields[2]))
             IN  ToolResult(PyStr(<<"X", "=">> \o str(xy.x) \o <<",", "Y", "=">>
                                  \o str(xy.y)),
                            PyStr(stderr), None)

----------------------------------------------------------------------------
(* Inputs and environment                                                  *)

Callers == {"c1"}

Resolutions == {<<800, 600>>, <<1024, 662>>, <<1440, 900>>, <<1728, 1117>>,
                <<1920, 1080>>}

ActionNames == Action \cup {"scroll"}

Texts ==
    {None, PyInt(5), PyStr(<<>>), PyStr(<<"a">>), PyStr(<<"\"">>),
     PyStr(<<"F", "1">>), PyStr(<<"f", "1">>),
     PyStr(<<"c","t","r","l","+","a">>),
     PyStr(<<"C","t","r","l","+","a">>),
     PyStr(<<"h","y","p","e","r","+","R","e","t","u","r","n">>),
     PyStr(<<"c","t","r","l","+","a","l","t","+","D","e","l","e","t","e">>)}

CoordValues == {-1, 0, 384, 512, 662, 663, 1024, 1025}

Coordinates ==
    {None, PyStr(<<"1", "2">>), PyTuple(<<PyInt(512), PyInt(384)>>),
     PyList(<<PyInt(512)>>), PyList(<<PyInt(1), PyInt(2), PyInt(3)>>),
     PyList(<<PyFloat(3), PyInt(384)>>), PyList(<<PyInt(512), PyStr(<<"7">>)>>)}
    \cup {PyList(<<PyInt(x), PyInt(y)>>) : x \in CoordValues, y \in CoordValues}

(* what run() can report: nothing on stderr, or some error text *)
Stderrs == {<<>>, <<"E">>}

(* what "cliclick p:" can print *)
PointerOutputs ==
    {<<>>, <<"8","6","4",",","6","4","8","\n">>, <<"0",",","0","\n">>,
     <<"8","6","4","\n">>}

Stdouts(command) ==
    IF command.prog = "cliclick" /\ command.arg = "p" THEN PointerOutputs
    ELSE {<<>>}

NoRequest == [action |-> "", text |-> None, coordinate |-> None]
Pending == [kind |-> "pending"]
NoOutput == [stdout |-> <<>>, stderr |-> <<>>]
NoProbe == [phase |-> "off"]

----------------------------------------------------------------------------
(* The dispatcher                                                          *)

Init ==
    /\ \E r \in Resolutions : width = r[1] /\ height = r[2]
    /\ pc = [p \in Callers |-> "idle"]
    /\ req = [p \in Callers |-> NoRequest]
    /\ todo = [p \in Callers |-> <<>>]
    /\ sh = [p \in Callers |-> NoOutput]
    /\ cap = [p \in Callers |-> NoOutput]
    /\ image = [p \in Callers |-> None]
    /\ log = <<>>
    /\ failed = [p \in Callers |-> FALSE]
    /\ outcome = [p \in Callers |-> Pending]
    /\ probe = NoProbe

(* Enter with the drag pressing the button before the target is scaled *)
Enter_press_first(p, c) ==
    /\ IF c.kind = "await"
       THEN /\ pc' = [pc EXCEPT ![p] = "running"]
            /\ todo' = [todo EXCEPT ![p] = c.ops]
            /\ UNCHANGED outcome
       ELSE /\ pc' = [pc EXCEPT ![p] = "done"]
            /\ outcome' = [outcome EXCEPT ![p] = c]
            /\ UNCHANGED todo
    /\ log' = IF /\ req'[p].action = "left_click_drag"
                 /\ c = ToolError("out of bounds")
              THEN Append(log, [caller |-> p, command |-> cliclick("dd")])
              ELSE log

(* the state a caller is in when __call__ reaches c: its first await, its  *)
(* return or its raise                                                     *)
Enter(p, c) ==
    /\ IF c.kind = "await"
       THEN /\ pc' = [pc EXCEPT ![p] = "running"]
            /\ todo' = [todo EXCEPT ![p] = c.ops]
            /\ UNCHANGED outcome
       ELSE /\ pc' = [pc EXCEPT ![p] = "done"]
            /\ outcome' = [outcome EXCEPT ![p] = c]
            /\ UNCHANGED todo
    /\ UNCHANGED log

(* a caller invokes __call__ *)
Call(p) ==
    /\ pc[p] = "idle"
    /\ \E action \in ActionNames, text \in Texts, coordinate \in Coordinates :
          /\ req' = [req EXCEPT ![p] = [action |-> action, text |-> text,
                                       coordinate |-> coordinate]]
          /\ Enter(p, call(width, height, action, text, coordinate))
    /\ UNCHANGED <<width, height, sh, cap, image, failed, probe>>

(* shell(): await run(command) *)
Run(p) ==
    /\ pc[p] = "running"
    /\ Head(todo[p]).op = "run"
    /\ LET step == Head(todo[p])
       IN  /\ log' = Append(log, [caller |-> p, command |-> step.command])
           /\ \E stdout \in Stdouts(step.command), stderr \in Stderrs :
                 LET r == [stdout |-> stdout, stderr |-> stderr]
                 IN  /\ sh' = IF step.into = "sh" THEN [sh EXCEPT ![p] = r] ELSE sh
                     /\ cap' = IF step.into = "cap" THEN [cap EXCEPT ![p] = r]
                               ELSE cap
                     /\ failed' = [failed EXCEPT ![p] = @ \/ stderr # <<>>]
    /\ todo' = [todo EXCEPT ![p] = Tail(@)]
    /\ UNCHANGED <<width, height, pc, req, image, outcome, probe>>

(* shell(): await asyncio.sleep(self._screenshot_delay) *)
Sleep(p) ==
    /\ pc[p] = "running"
    /\ Head(todo[p]).op = "sleep"
    /\ log' = Append(log, [caller |-> p, command |-> sleep])
    /\ todo' = [todo EXCEPT ![p] = Tail(@)]
    /\ UNCHANGED <<width, height, pc, req, sh, cap, image, failed, outcome, probe>>

(* screenshot(): path.exists() decides between the image and ToolError.   *)
(* The file can be missing only if screencapture reported an error.       *)
PathExists(p) ==
    /\ pc[p] = "running"
    /\ Head(todo[p]).op = "exists"
    /\ \E exists \in BOOLEAN :
          /\ ~exists => cap[p].stderr # <<>>
          /\ IF exists
             THEN /\ image' = [image EXCEPT ![p] = PyStr(<<"base64">>)]
                  /\ todo' = [todo EXCEPT ![p] = Tail(@)]
                  /\ UNCHANGED <<pc, outcome>>
             ELSE /\ outcome' = [outcome EXCEPT
                                   ![p] = ToolError("Failed to take screenshot")]
                  /\ pc' = [pc EXCEPT ![p] = "done"]
                  /\ todo' = [todo EXCEPT ![p] = <<>>]
                  /\ UNCHANGED image
    /\ UNCHANGED <<width, height, req, sh, cap, log, failed, probe>>

(* the return statement that ends __call__ *)
Return(p) ==
    /\ pc[p] = "running"
    /\ Head(todo[p]).op = "return"
    /\ LET what == Head(todo[p]).what
       IN  outcome' = [outcome EXCEPT ![p] =
             IF what = "shell"
             THEN ToolResult(PyStr(sh[p].stdout), PyStr(sh[p].stderr), image[p])
             ELSE IF what = "screenshot"
             THEN ToolResult(PyStr(cap[p].stdout), PyStr(cap[p].stderr), image[p])
             ELSE cursor_result(width, height, sh[p].stdout, sh[p].stderr)]
    /\ pc' = [pc EXCEPT ![p] = "done"]
    /\ todo' = [todo EXCEPT ![p] = <<>>]
    /\ UNCHANGED <<width, height, req, sh, cap, image, log, failed, probe>>

(* the caller has its outcome and is ready for its next dispatch *)
Finish(p) ==
    /\ pc[p] = "done"
    /\ pc' = [pc EXCEPT ![p] = "idle"]
    /\ req' = [req EXCEPT ![p] = NoRequest]
    /\ sh' = [sh EXCEPT ![p] = NoOutput]
    /\ cap' = [cap EXCEPT ![p] = NoOutput]
    /\ image' = [image EXCEPT ![p] = None]
    /\ outcome' = [outcome EXCEPT ![p] = Pending]
    /\ log' = SelectSeq(log, LAMBDA e : e.caller # p)
    /\ failed' = [failed EXCEPT ![p] = FALSE]
    /\ UNCHANGED <<width, height, todo, probe>>

Next ==
    \E p \in Callers :
        \/ Call(p)
        \/ Run(p)
        \/ Sleep(p)
        \/ PathExists(p)
        \/ Return(p)
        \/ Finish(p)

Spec == Init /\ [][Next]_vars

----------------------------------------------------------------------------
(* The coordinate scaler on its own: a point is converted to screen space  *)
(* and back.  x and y are scaled independently, so one of them sweeps its  *)
(* whole range, ProbeMargin beyond it on both sides, while the other takes *)
(* the sample values.                                                      *)

ProbeMargin == 1

XSamples == {0, 8, 512, MAC_SCALED_RES_WIDTH}
YSamples == {0, 384, MAC_SCALED_RES_HEIGHT}

ProbePoints ==
    {<<x, y>> : x \in (0 - ProbeMargin)..(MAC_SCALED_RES_WIDTH + ProbeMargin),
                y \in YSamples}
    \cup {<<x, y>> : x \in XSamples,
                     y \in (0 - ProbeMargin)..(MAC_SCALED_RES_HEIGHT + ProbeMargin)}

InitScale ==
    /\ \E r \in Resolutions : width = r[1] /\ height = r[2]
    /\ pc = [p \in Callers |-> "idle"]
    /\ req = [p \in Callers |-> NoRequest]
    /\ todo = [p \in Callers |-> <<>>]
    /\ sh = [p \in Callers |-> NoOutput]
    /\ cap = [p \in Callers |-> NoOutput]
    /\ image = [p \in Callers |-> None]
    /\ log = <<>>
    /\ failed = [p \in Callers |-> FALSE]
    /\ outcome = [p \in Callers |-> Pending]
    /\ \E pt \in ProbePoints : probe = [phase |-> "api", x |-> pt[1], y |-> pt[2]]

(* scale_coordinates(ScalingSource.API, x, y) *)
ToScreen ==
    /\ probe.phase = "api"
    /\ probe' = [phase |-> "screen", x |-> probe.x, y |-> probe.y,
                 screen |-> scale_coordinates(width, height, "api",
                                              probe.x, probe.y)]
    /\ UNCHANGED <<width, height, pc, req, todo, sh, cap, image, log, failed,
                   outcome>>

(* scale_coordinates(ScalingSource.COMPUTER, x, y) of the screen point *)
ToAPI ==
    /\ probe.phase = "screen"
    /\ "raise" \notin DOMAIN probe.screen
    /\ probe' = [phase |-> "back", x |-> probe.x, y |-> probe.y,
                 screen |-> probe.screen,
                 api |-> scale_coordinates(width, height, "computer",
                                           probe.screen.x, probe.screen.y)]
    /\ UNCHANGED <<width, height, pc, req, todo, sh, cap, image, log, failed,
                   outcome>>

NextScale == ToScreen \/ ToAPI

SpecScale == InitScale /\ [][NextScale]_vars

----------------------------------------------------------------------------
(* Two coroutines call the same ComputerTool: the event loop runs one of   *)
(* them up to its next await, then either of them.  One of them drags,    *)
(* the other clicks, on the display of the docstring of scale_coordinates. *)

ConcCallers == {"c1", "c2"}

ConcRequests(p) ==
    IF p = "c1"
    THEN {[action |-> "left_click_drag", text |-> None,
           coordinate |-> PyList(<<PyInt(512), PyInt(384)>>)]}
    ELSE {[action |-> "left_click", text |-> None, coordinate |-> None]}

InitConc ==
    /\ width = 1728 /\ height = 1117
    /\ pc = [p \in ConcCallers |-> "idle"]
    /\ req = [p \in ConcCallers |-> NoRequest]
    /\ todo = [p \in ConcCallers |-> <<>>]
    /\ sh = [p \in ConcCallers |-> NoOutput]
    /\ cap = [p \in ConcCallers |-> NoOutput]
    /\ image = [p \in ConcCallers |-> None]
    /\ log = <<>>
    /\ failed = [p \in ConcCallers |-> FALSE]
    /\ outcome = [p \in ConcCallers |-> Pending]
    /\ probe = NoProbe

CallConc(p) ==
    /\ pc[p] = "idle"
    /\ \E r \in ConcRequests(p) :
          /\ req' = [req EXCEPT ![p] = r]
          /\ Enter(p, call(width, height, r.action, r.text, r.coordinate))
    /\ UNCHANGED <<width, height, sh, cap, image, failed, probe>>

NextConc ==
    \E p \in ConcCallers :
        \/ CallConc(p)
        \/ Run(p)
        \/ Sleep(p)
        \/ PathExists(p)
        \/ Return(p)
        \/ Finish(p)

SpecConc == InitConc /\ [][NextConc]_vars

----------------------------------------------------------------------------
(* Properties                                                              *)

Abs(n) == IF n < 0 THEN 0 - n ELSE n

AwaitsOf(p) == SelectSeq(log, LAMBDA e : e.caller = p)
CallsOf(p) == SelectSeq(AwaitsOf(p), LAMBDA e : e.command # sleep)
CommandsOf(p) == [i \in 1..Len(CallsOf(p)) |-> CallsOf(p)[i].command]
ProgsOf(p) == [i \in 1..Len(CallsOf(p)) |-> CallsOf(p)[i].command.prog]
IsPrefix(s, t) == Len(s) <= Len(t) /\ s = SubSeq(t, 1, Len(s))

(* the fault classes of the raised ToolErrors, by message *)
InvalidArgument ==
    {"coordinate is required", "text is not accepted",
     "must be a tuple of length 2", "must be a tuple of non-negative ints",
     "text is required", "coordinate is not accepted", "must be a string"}
OutOfBounds == {"out of bounds"}
UnsupportedAction == {"Invalid action"}

Raised(p, msgs) ==
    /\ outcome[p].kind = "raise"
    /\ outcome[p].exc = "ToolError"
    /\ outcome[p].msg \in msgs

UnsupportedOperation ==
    ToolResult(None, PyStr(<<"Middle click is not supported currently.">>), None)

(* C1: on a display of at least 1024 x 662, a point with 0 <= x <= 1024    *)
(* and 0 <= y <= 662 scaled to the screen and back differs from itself by  *)
(* at most 1 in x and in y.                                                *)
C1_RoundTrip ==
    ( /\ probe.phase = "back"
      /\ width >= MAC_SCALED_RES_WIDTH /\ height >= MAC_SCALED_RES_HEIGHT
      /\ probe.x \in 0..MAC_SCALED_RES_WIDTH
      /\ probe.y \in 0..MAC_SCALED_RES_HEIGHT )
    => /\ Abs(probe.api.x - probe.x) <= 1
       /\ Abs(probe.api.y - probe.y) <= 1

(* x = 8 on the 1728 wide display scales to the tie 13.5, rounded to 14 *)
C1_Witness ==
    /\ probe.phase = "back"
    /\ width = 1728 /\ height = 1117
    /\ probe.x = 8 /\ probe.y = 384
    /\ probe.screen = [x |-> 14, y |-> 648]
    /\ probe.api = [x |-> 8, y |-> 384]

(* C2: scaling from API space raises the out-of-bounds ToolError exactly   *)
(* for the points with x > 1024 or y > 662, and returns a screen point for *)
(* every other point.                                                      *)
C2_Bounds ==
    probe.phase \in {"screen", "back"}
    => IF probe.x > 1024 \/ probe.y > 662
       THEN probe.screen = [raise |-> "out of bounds"]
       ELSE DOMAIN probe.screen = {"x", "y"}

C2_Witness ==
    /\ probe.phase = "screen"
    /\ probe.x = 512 /\ probe.y = 663
    /\ probe.screen = [raise |-> "out of bounds"]

(* C3: a dispatch that raised an InvalidArgument, OutOfBounds or           *)
(* UnsupportedAction fault has handed no command to the backend.           *)
C3_RejectionHasNoSideEffect ==
    \A p \in Callers :
        Raised(p, InvalidArgument \cup OutOfBounds \cup UnsupportedAction)
        => CallsOf(p) = <<>>

C3_Witness ==
    \E p \in Callers :
        /\ req[p].action = "left_click_drag"
        /\ req[p].coordinate = PyList(<<PyInt(512), PyInt(663)>>)
        /\ Raised(p, OutOfBounds)
        /\ CallsOf(p) = <<>>

(* C4: key and type are rejected with InvalidArgument exactly when text is *)
(* absent, empty or not a string, or a coordinate is present.              *)
C4_NonEmptyTextRequired ==
    \A p \in Callers :
        (pc[p] # "idle" /\ req[p].action \in {"key", "type"})
        => ( Raised(p, InvalidArgument)
             <=> ( \/ req[p].text = None
                   \/ req[p].text = PyStr(<<>>)
                   \/ req[p].coordinate # None
                   \/ req[p].text.t # "str" ) )

(* C5: mouse_move and left_click_drag are rejected with InvalidArgument    *)
(* exactly when text is present, or the coordinate is missing, is not a    *)
(* pair, or has a component that is not a non-negative integer.            *)
IsPair(c) == c.t \in {"list", "tuple"} /\ Len(c.items) = 2

C5_PointerArguments ==
    \A p \in Callers :
        (pc[p] # "idle" /\ req[p].action \in {"mouse_move", "left_click_drag"})
        => ( Raised(p, InvalidArgument)
             <=> ( \/ req[p].text # None
                   \/ req[p].coordinate = None
                   \/ ~IsPair(req[p].coordinate)
                   \/ ~non_negative_ints(req[p].coordinate.items) ) )

(* C6: the four clicks, screenshot and cursor_position are rejected with   *)
(* InvalidArgument exactly when text or a coordinate is present.           *)
C6_ClickArguments ==
    \A p \in Callers :
        ( /\ pc[p] # "idle"
          /\ req[p].action \in {"left_click", "right_click", "middle_click",
                                "double_click", "screenshot", "cursor_position"} )
        => ( Raised(p, InvalidArgument)
             <=> (req[p].text # None \/ req[p].coordinate # None) )

C6_Witness ==
    \E p \in Callers :
        /\ req[p].action = "left_click"
        /\ req[p].text = PyStr(<<>>)
        /\ req[p].coordinate = None
        /\ Raised(p, {"text is not accepted"})

(* C7 as stated: a middle_click ends in the "not supported" result for     *)
(* every combination of text and coordinate, and calls no capability.      *)
C7_AlwaysUnsupported ==
    \A p \in Callers :
        (pc[p] = "done" /\ req[p].action = "middle_click")
        => outcome[p] = UnsupportedOperation /\ CallsOf(p) = <<>>

(* C7: a middle_click never calls a capability; it ends in the "not        *)
(* supported" result when neither text nor coordinate is present and in    *)
(* an InvalidArgument fault otherwise.                                     *)
C7_MiddleClick ==
    \A p \in Callers :
        (pc[p] # "idle" /\ req[p].action = "middle_click")
        => /\ pc[p] = "done"
           /\ CallsOf(p) = <<>>
           /\ IF req[p].text = None /\ req[p].coordinate = None
              THEN outcome[p] = UnsupportedOperation
              ELSE Raised(p, InvalidArgument)

C7_Witness ==
    \E p \in Callers :
        /\ req[p] = [action |-> "middle_click", text |-> None,
                     coordinate |-> None]
        /\ outcome[p] = UnsupportedOperation

KeyCommandsOf(p) == SelectSeq(CommandsOf(p), LAMBDA c : c.prog = "osascript")

(* C8 as stated: a key press without modifiers is one key command, one     *)
(* with modifiers is three (modifier-down, key-press, modifier-up).        *)
C8_ThreeCallsWithModifiers ==
    \A p \in Callers :
        ( /\ pc[p] = "done" /\ req[p].action = "key"
          /\ outcome[p].kind = "return" )
        => Len(KeyCommandsOf(p)) =
               IF raw_mods(req[p].text.s) = <<>> THEN 1 ELSE 3

(* C8: a key press, with or without modifiers, is exactly one key command  *)
(* handed to the backend, followed by the capture of one screenshot.       *)
C8_SingleKeyCommand ==
    \A p \in Callers :
        (pc[p] # "idle" /\ req[p].action = "key" /\ ~Raised(p, InvalidArgument))
        => /\ IsPrefix(ProgsOf(p), <<"osascript", "screencapture", "magick">>)
           /\ outcome[p].kind = "return"
              => /\ Len(ProgsOf(p)) = 3
                 /\ outcome[p].base64_image # None

C8_Witness ==
    \E p \in Callers :
        /\ req[p].action = "key"
        /\ req[p].text = PyStr(<<"c","t","r","l","+","a","l","t","+",
                                 "D","e","l","e","t","e">>)
        /\ outcome[p].kind = "return"
        /\ Len(KeyCommandsOf(p)) = 1

(* C9: the key command handed to the backend presses the last token of the *)
(* text with every known modifier among the preceding tokens applied.      *)
C9_ModifiersReachBackend ==
    \A i \in 1..Len(log) :
        log[i].command.prog = "osascript"
        => log[i].command.script.using =
               lookup_known(XDOTOOL_TO_APPLESCRIPT_MODIFIERS,
                            raw_mods(req[log[i].caller].text.s))

(* C10: a completed drag has handed to the backend the press, the move to  *)
(* the scaled target and the release, and after the release the capture of *)
(* one screenshot, and nothing else.                                       *)
C10_DragSequence ==
    \A p \in Callers :
        ( /\ pc[p] = "done" /\ req[p].action = "left_click_drag"
          /\ outcome[p].kind = "return" )
        => LET xy == scale_coordinates(width, height, "api",
                                       req[p].coordinate.items[1].i,
                                       req[p].coordinate.items[2].i)
           IN  CommandsOf(p) = <<cliclick("dd"), cliclick_m(xy.x, xy.y),
                                 cliclick("du"), screencapture, magick>>

EventsOf(p) == [i \in 1..Len(AwaitsOf(p)) |-> AwaitsOf(p)[i].command]

Accepted(p) ==
    /\ pc[p] # "idle"
    /\ ~Raised(p, InvalidArgument \cup OutOfBounds \cup UnsupportedAction)

(* C11: a mouse_move hands to the backend one pointer move to the scaled   *)
(* point, then waits the settle delay, then captures one screenshot, and   *)
(* its result carries that image; on the 1728 x 1117 display the move for  *)
(* (512, 384) goes to (864, 648).                                          *)
C11_MouseMoveSequence ==
    \A p \in Callers :
        (req[p].action = "mouse_move" /\ Accepted(p))
        => LET xy == scale_coordinates(width, height, "api",
                                       req[p].coordinate.items[1].i,
                                       req[p].coordinate.items[2].i)
           IN  /\ IsPrefix(EventsOf(p), <<cliclick_m(xy.x, xy.y), sleep,
                                          screencapture, magick>>)
               /\ outcome[p].kind = "return"
                  => /\ Len(EventsOf(p)) = 4
                     /\ outcome[p].base64_image = PyStr(<<"base64">>)
               /\ ( /\ width = 1728 /\ height = 1117
                    /\ req[p].coordinate = PyList(<<PyInt(512), PyInt(384)>>)
                    /\ EventsOf(p) # <<>> )
                  => EventsOf(p)[1] = cliclick_m(864, 648)

C11_Witness ==
    \E p \in Callers :
        /\ width = 1728 /\ height = 1117
        /\ req[p].action = "mouse_move"
        /\ req[p].coordinate = PyList(<<PyInt(512), PyInt(384)>>)
        /\ outcome[p].kind = "return"
        /\ EventsOf(p) = <<cliclick_m(864, 648), sleep, screencapture, magick>>

(* the screen points that the outputs of PointerOutputs report *)
ReportedPointer(stdout) ==
    IF stdout = <<"8","6","4",",","6","4","8","\n">> THEN [x |-> 864, y |-> 648]
    ELSE [x |-> 0, y |-> 0]

(* C12: a cursor_position that returns has queried the pointer once, has   *)
(* captured no screenshot, and returns 'X=<x>,Y=<y>' of the reported point *)
(* scaled to API space, without an image; on the 1728 x 1117 display a     *)
(* pointer at (864, 648) gives 'X=512,Y=384'.                              *)
C12_CursorPosition ==
    \A p \in Callers :
        (req[p].action = "cursor_position" /\ Accepted(p))
        => /\ IsPrefix(EventsOf(p), <<cliclick("p")>>)
           /\ outcome[p].kind = "return"
              => LET at == ReportedPointer(sh[p].stdout)
                     xy == scale_coordinates(width, height, "computer",
                                             at.x, at.y)
                 IN  /\ EventsOf(p) = <<cliclick("p")>>
                     /\ outcome[p].base64_image = None
                     /\ outcome[p].output =
                            PyStr(<<"X", "=">> \o str(xy.x)
                                  \o <<",", "Y", "=">> \o str(xy.y))
                     /\ (width = 1728 /\ height = 1117 /\ at.x = 864)
                        => outcome[p].output =
                               PyStr(<<"X","=","5","1","2",",",
                                       "Y","=","3","8","4">>)

C12_Witness ==
    \E p \in Callers :
        /\ width = 1728 /\ height = 1117
        /\ req[p].action = "cursor_position"
        /\ sh[p].stdout = <<"8","6","4",",","6","4","8","\n">>
        /\ outcome[p].kind = "return"
        /\ outcome[p].output = PyStr(<<"X","=","5","1","2",",",
                                       "Y","=","3","8","4">>)
        /\ EventsOf(p) = <<cliclick("p")>>

(* C13: a type that returns has handed the text to one text injection and  *)
(* then, without a settle delay, captured one screenshot; its result has   *)
(* the output and the error text of the injection and that image.          *)
C13_TypeText ==
    \A p \in Callers :
        (req[p].action = "type" /\ Accepted(p))
        => /\ IsPrefix(EventsOf(p), <<cliclick_t(req[p].text.s),
                                      screencapture, magick>>)
           /\ outcome[p].kind = "return"
              => /\ Len(EventsOf(p)) = 3
                 /\ outcome[p] = ToolResult(PyStr(sh[p].stdout),
                                            PyStr(sh[p].stderr),
                                            PyStr(<<"base64">>))

(* the injection reported an error, the capture did not *)
C13_Witness ==
    \E p \in Callers :
        /\ req[p].action = "type"
        /\ req[p].text = PyStr(<<"a">>)
        /\ sh[p].stderr = <<"E">> /\ cap[p].stderr = <<>>
        /\ outcome[p] = ToolResult(PyStr(<<>>), PyStr(<<"E">>),
                                   PyStr(<<"base64">>))
        /\ EventsOf(p) = <<cliclick_t(<<"a">>), screencapture, magick>>

(* C14: the advertised display size is 1024 x 768 on every display, and    *)
(* no step changes the stored size of the real display.                    *)
C14_AdvertisedResolution ==
    /\ [](options(width, height) =
             [display_width_px |-> XGA_RES_WIDTH,
              display_height_px |-> XGA_RES_HEIGHT])
    /\ [][width' = width /\ height' = height]_vars

(* C15: whatever the backend answers, a dispatch ends in a ToolResult or   *)
(* in a raised ToolError; no other exception leaves __call__.              *)
C15_OnlyToolErrorEscapes ==
    \A p \in Callers :
        pc[p] = "done"
        => \/ outcome[p].kind = "return"
           \/ outcome[p].kind = "raise" /\ outcome[p].exc = "ToolError"

(* C16: once a command of a dispatch has reported an error, that dispatch  *)
(* hands no further command to the backend: no later sub-step and no       *)
(* screen capture.                                                         *)
C16_FailureShortCircuits ==
    [][\A p \in Callers :
           failed[p] => Len(CallsOf(p)') <= Len(CallsOf(p))]_vars

InputCommandsOf(p) ==
    SelectSeq(CommandsOf(p), LAMBDA c : c.prog \in {"cliclick", "osascript"})

(* C17: when a command of a dispatch has reported an error, the outcome of *)
(* the dispatch carries an error (the error text of a result, or a raised  *)
(* fault), and no input command of the dispatch is issued twice.           *)
C17_FailureSurfaced ==
    \A p \in Callers :
        /\ (pc[p] = "done" /\ failed[p])
           => \/ outcome[p].kind = "raise"
              \/ /\ outcome[p].kind = "return"
                 /\ outcome[p].error \notin {None, PyStr(<<>>)}
        /\ \A i, j \in 1..Len(InputCommandsOf(p)) :
               InputCommandsOf(p)[i] = InputCommandsOf(p)[j] => i = j

UpperCase == <<"A","B","C","D","E","F","G","H","I","J","K","L","M",
               "N","O","P","Q","R","S","T","U","V","W","X","Y","Z">>
LowerCase == <<"a","b","c","d","e","f","g","h","i","j","k","l","m",
               "n","o","p","q","r","s","t","u","v","w","x","y","z">>

LowerChar(c) ==
    IF \E i \in 1..26 : UpperCase[i] = c
    THEN LowerCase[CHOOSE i \in 1..26 : UpperCase[i] = c]
    ELSE c

Lower(s) == [i \in 1..Len(s) |-> LowerChar(s[i])]

LowerAll(ms) == [i \in 1..Len(ms) |-> Lower(ms[i])]

(* C18: the modifiers of a key text are translated whatever their letter   *)
(* case: the translation that __call__ computes is that of the lower-case  *)
(* modifier names, none being dropped for its case.                        *)
C18_ModifierCaseInsensitive ==
    \A p \in Callers :
        (req[p].action = "key" /\ Accepted(p))
        => applescript_mods(req[p].text.s) =
               lookup_known(XDOTOOL_TO_APPLESCRIPT_MODIFIERS,
                            LowerAll(raw_mods(req[p].text.s)))

Calls == SelectSeq(log, LAMBDA e : e.command # sleep)

(* C19 as stated: also with two dispatches started concurrently, no        *)
(* capability call of another dispatch lies between two capability calls   *)
(* of one dispatch.                                                        *)
C19_NoInterleaving ==
    \A i, j, k \in 1..Len(Calls) :
        (i < k /\ k < j /\ Calls[i].caller = Calls[j].caller)
        => Calls[k].caller = Calls[i].caller

(* C19: the sub-steps of one dispatch are handed to the backend strictly   *)
(* in sequence, also while another dispatch runs on the same instance: the *)
(* drag presses, then moves to the scaled target, then releases, each      *)
(* followed by its settle delay and capture before the next is issued.     *)
C19_SubStepsInSequence ==
    \A p \in ConcCallers :
        (p \in DOMAIN pc /\ req[p].action = "left_click_drag" /\ Accepted(p))
        => LET xy == scale_coordinates(width, height, "api",
                                       req[p].coordinate.items[1].i,
                                       req[p].coordinate.items[2].i)
           IN  /\ IsPrefix(InputCommandsOf(p),
                           <<cliclick("dd"), cliclick_m(xy.x, xy.y),
                             cliclick("du")>>)
               /\ IsPrefix(EventsOf(p),
                           <<cliclick("dd"), sleep, screencapture, magick,
                             cliclick_m(xy.x, xy.y), sleep, screencapture,
                             magick, cliclick("du"), sleep, screencapture,
                             magick>>)

(* the click of the other caller lies between the press and the release *)
C19_Witness ==
    \E i, j, k \in 1..Len(Calls) :
        /\ i < k /\ k < j
        /\ Calls[i] = [caller |-> "c1", command |-> cliclick("dd")]
        /\ Calls[k] = [caller |-> "c2", command |-> cliclick("c")]
        /\ Calls[j] = [caller |-> "c1", command |-> cliclick("du")]

(* C20: on a display of at least 1024 x 662, the screen point of a point   *)
(* with 0 <= x <= 1024 and 0 <= y <= 662 lies on the display.              *)
C20_ScreenPointOnDisplay ==
    ( /\ probe.phase \in {"screen", "back"}
      /\ width >= MAC_SCALED_RES_WIDTH /\ height >= MAC_SCALED_RES_HEIGHT
      /\ probe.x \in 0..MAC_SCALED_RES_WIDTH
      /\ probe.y \in 0..MAC_SCALED_RES_HEIGHT )
    => /\ DOMAIN probe.screen = {"x", "y"}
       /\ probe.screen.x \in 0..width
       /\ probe.screen.y \in 0..height

(* the far corner of API space is the far corner of the display *)
C20_Witness ==
    /\ probe.phase = "screen"
    /\ width = 1920 /\ height = 1080
    /\ probe.x = 1024 /\ probe.y = 662
    /\ probe.screen = [x |-> 1920, y |-> 1080]

====
